---- MODULE Spec2Model ----
(***************************************************************************)
(* Model of upword-memoized.py: the memoizing SubwordCache and the         *)
(* depth-first search for universal partial words that drives it.          *)
(*                                                                         *)
(* A word is a sequence of one-character symbols; "w" is the wildcard.     *)
(* The state of one run of the script is kept in the script's own          *)
(* variables; the same steps, written as operators on a record of those    *)
(* variables, also drive a second run (twin) that the two-run              *)
(* specification steps side by side with the first.                        *)
(***************************************************************************)
EXTENDS Integers, Sequences, FiniteSets, TLC

VARIABLES
    alphabet,          \* list of symbols; shuffled in place when randomize_walk
    window_length,
    randomize_walk,
    verbose_output,
    mem_seenWords,     \* SubwordCache.mem_seenWords: word -> set of windows
    max_entries,       \* SubwordCache.max_entries
    target_length,
    processing_stack,
    upwords,
    upword_list,       \* the words written to the output file
    longest,
    word,              \* the word popped by the current iteration
    next_symbols,
    c_index,           \* position of the for loop in next_symbols
    candidate,
    isLeafNode,
    pc,                \* "while", "for", "done", "error"
    twin,              \* a second run of the script (record of the same fields)
    call,              \* the last SubwordCache method called from outside
    ret,               \* what coveredSubwords returned to that call
    rep,               \* what hasRepeatedSubword returned to that call
    probe,             \* the word whose prefixes the outside calls use
    mem_reference,     \* the cache of a SubwordCache given the same calls, expire excepted
    ret_reference      \* what coveredSubwords returned on that cache

runVars == <<alphabet, window_length, randomize_walk, verbose_output,
             mem_seenWords, max_entries, target_length, processing_stack,
             upwords, upword_list, longest, word, next_symbols, c_index, candidate,
             isLeafNode, pc>>
apiVars == <<call, ret, rep, probe, mem_reference, ret_reference>>
vars == <<runVars, twin, apiVars>>

---------------------------------------------------------------------------
(* Bounds of the model *)

MaxAlphabet == 2       \* alphabets of 1 .. MaxAlphabet symbols
MaxWindow == 4         \* window lengths 1 .. MaxWindow
MaxTarget == 11        \* only parameters whose target length is at most this
MaxCapacity == 2       \* capacities 1 .. MaxCapacity, and the default
MaxProbe == 3          \* length of the probe word of the outside calls

(* Program constants *)

DefaultMaxEntries == 9000

Wildcard == "w"

Digits == <<"0", "1", "2", "3">>

---------------------------------------------------------------------------
(* Strings *)

Range(s) == {s[i] : i \in 1..Len(s)}

\* word[:-1]
ButLast(s) == IF Len(s) = 0 THEN <<>> ELSE SubSeq(s, 1, Len(s) - 1)

\* word[-n:]
LastN(s, n) == IF Len(s) <= n THEN s ELSE SubSeq(s, Len(s) - n + 1, Len(s))

\* s.replace("w", a)
Replace(s, a) == [i \in 1..Len(s) |-> IF s[i] = Wildcard THEN a ELSE s[i]]

\* the orders random.shuffle can leave a list in
Shuffles(s) ==
    {p \in [1..Len(s) -> Range(s)] : \A i, j \in 1..Len(s) : p[i] = p[j] => i = j}

---------------------------------------------------------------------------
(* SubwordCache.  Each method is an operator from the cache it is called  *)
(* on (and the globals it reads) to what it returns and the cache it      *)
(* leaves.                                                                *)

EmptyCache == <<>>

\* the expansions of the last window of w: one per alphabet symbol
NewWords(alpha, n, w) == {Replace(LastN(w, n), alpha[i]) : i \in 1..Len(alpha)}

RECURSIVE CoveredSubwords(_, _, _, _)

\* mutant: stores the empty set for a word shorter than the window
CoveredSubwordsCachesShort(mem, alpha, n, w) ==
    IF Len(w) < n
    THEN [ret |-> {}, mem |-> (w :> {}) @@ mem]
    ELSE IF w \in DOMAIN mem
    THEN [ret |-> mem[w], mem |-> mem]
    ELSE LET sub == CoveredSubwords(mem, alpha, n, ButLast(w))
             stored == sub.mem @@ (w :> (sub.ret \cup NewWords(alpha, n, w)))
         IN  [ret |-> stored[w], mem |-> stored]

\* mutant: takes a word as long as the window for too short
CoveredSubwordsShortBase(mem, alpha, n, w) ==
    IF Len(w) <= n
    THEN [ret |-> {}, mem |-> mem]
    ELSE IF w \in DOMAIN mem
    THEN [ret |-> mem[w], mem |-> mem]
    ELSE LET sub == CoveredSubwords(mem, alpha, n, ButLast(w))
             stored == sub.mem @@ (w :> (sub.ret \cup NewWords(alpha, n, w)))
         IN  [ret |-> stored[w], mem |-> stored]

\* mutant: stores the new windows without those of the shorter word
CoveredSubwordsNoUnion(mem, alpha, n, w) ==
    IF Len(w) < n
    THEN [ret |-> {}, mem |-> mem]
    ELSE IF w \in DOMAIN mem
    THEN [ret |-> mem[w], mem |-> mem]
    ELSE LET sub == CoveredSubwords(mem, alpha, n, ButLast(w))
             stored == sub.mem @@ (w :> NewWords(alpha, n, w))
         IN  [ret |-> stored[w], mem |-> stored]

\* mutant: reads the shorter word's entry from the cache and takes it as
\* empty when it is missing, instead of computing it
CoveredSubwordsNoRecompute(mem, alpha, n, w) ==
    IF Len(w) < n
    THEN [ret |-> {}, mem |-> mem]
    ELSE IF w \in DOMAIN mem
    THEN [ret |-> mem[w], mem |-> mem]
    ELSE LET shorter == IF ButLast(w) \in DOMAIN mem THEN mem[ButLast(w)] ELSE {}
             stored == mem @@ (w :> (shorter \cup NewWords(alpha, n, w)))
         IN  [ret |-> stored[w], mem |-> stored]

CoveredSubwords(mem, alpha, n, w) ==
    IF Len(w) < n
    THEN [ret |-> {}, mem |-> mem]
    ELSE IF w \in DOMAIN mem
    THEN [ret |-> mem[w], mem |-> mem]
    ELSE LET sub == CoveredSubwords(mem, alpha, n, ButLast(w))
             stored == sub.mem @@ (w :> (sub.ret \cup NewWords(alpha, n, w)))
         IN  [ret |-> stored[w], mem |-> stored]

Size(mem) == Cardinality(DOMAIN mem)

\* mutant: keeps the entries of the words on the stack themselves
ExpireUntruncated(mem, entries, current_stack) ==
    IF Size(mem) < entries
    THEN mem
    ELSE LET kept_keys == {current_stack[i] : i \in 1..Len(current_stack)}
         IN  [key \in (DOMAIN mem) \cap kept_keys |-> mem[key]]

\* mutant: prunes only a cache that is over the limit
ExpireOverLimit(mem, entries, current_stack) ==
    IF Size(mem) <= entries
    THEN mem
    ELSE LET truncated_keys == {ButLast(current_stack[i]) : i \in 1..Len(current_stack)}
         IN  [key \in (DOMAIN mem) \cap truncated_keys |-> mem[key]]

\* mutant: empties a cache that has reached the limit
ExpireClear(mem, entries, current_stack) ==
    IF Size(mem) < entries THEN mem ELSE EmptyCache

\* mutant: keeps the needed keys and forgets what they cover
ExpireResetting(mem, entries, current_stack) ==
    IF Size(mem) < entries
    THEN mem
    ELSE LET truncated_keys == {ButLast(current_stack[i]) : i \in 1..Len(current_stack)}
         IN  [key \in (DOMAIN mem) \cap truncated_keys |-> {}]

Expire(mem, entries, current_stack) ==
    IF Size(mem) < entries
    THEN mem
    ELSE LET truncated_keys == {ButLast(current_stack[i]) : i \in 1..Len(current_stack)}
             bad_keys == {key \in DOMAIN mem : key \notin truncated_keys}
         IN  [key \in (DOMAIN mem) \ bad_keys |-> mem[key]]

\* mutant: returns after looking at the first alphabet symbol only
HasRepeatedSubwordFirstOnly(mem, alpha, n, w) ==
    LET words == CoveredSubwords(mem, alpha, n, ButLast(w))
    IN  [ret |-> Replace(LastN(w, n), alpha[1]) \in words.ret,
         mem |-> words.mem]

\* mutant: looks up the last window as it is, the wildcard not replaced
HasRepeatedSubwordUnexpanded(mem, alpha, n, w) ==
    LET words == CoveredSubwords(mem, alpha, n, ButLast(w))
    IN  [ret |-> LastN(w, n) \in words.ret,
         mem |-> words.mem]

HasRepeatedSubword(mem, alpha, n, w) ==
    LET words == CoveredSubwords(mem, alpha, n, ButLast(w))
    IN  [ret |-> \E i \in 1..Len(alpha) : Replace(LastN(w, n), alpha[i]) \in words.ret,
         mem |-> words.mem]

---------------------------------------------------------------------------
(* The script.  A run is the record of the script's variables.            *)

FirstCandidate(alpha) == <<alpha[1]>>

\* mutant: one short
TargetLengthShort(alpha, n) == Len(alpha) ^ (n - 1) + (n - 2)

TargetLength(alpha, n) == Len(alpha) ^ (n - 1) + (n - 1)

\* the state of a run when the while loop is first reached
InitRun(alpha, n, entries, randomize, verbose) ==
    [alphabet |-> alpha, window_length |-> n,
     randomize_walk |-> randomize, verbose_output |-> verbose,
     mem_seenWords |-> EmptyCache, max_entries |-> entries,
     target_length |-> TargetLength(alpha, n),
     processing_stack |-> <<FirstCandidate(alpha)>>,
     upwords |-> <<>>,
     upword_list |-> <<>>,
     longest |-> Len(FirstCandidate(alpha)),
     word |-> <<>>, next_symbols |-> <<>>, c_index |-> 1,
     candidate |-> <<>>, isLeafNode |-> FALSE,
     pc |-> "while"]

\* does the next symbol after w fall on the last position of a window
\* mutant: puts the wildcard first in each window
OnWildcardFirst(n, w) == Len(w) % n = 0

OnWildcard(n, w) == Len(w) % n = n - 1

\* mutant: shuffles whatever randomize_walk says
WalkOrdersAlways(r) ==
    IF ~OnWildcard(r.window_length, r.processing_stack[Len(r.processing_stack)])
    THEN Shuffles(r.alphabet)
    ELSE {r.alphabet}

\* the orders the alphabet can be in when the for loop starts
WalkOrders(r) ==
    IF r.randomize_walk /\ ~OnWildcard(r.window_length, r.processing_stack[Len(r.processing_stack)])
    THEN Shuffles(r.alphabet)
    ELSE {r.alphabet}

\* lines 148-175: pop the top of the stack, choose the next symbols
PopStep(r, order) ==
    LET top == r.processing_stack[Len(r.processing_stack)]
    IN  [r EXCEPT !.word = top,
                  !.processing_stack = ButLast(r.processing_stack),
                  !.longest = IF Len(top) >= r.longest THEN Len(top) ELSE r.longest,
                  !.alphabet = order,
                  !.next_symbols = IF OnWildcard(r.window_length, top)
                                   THEN <<Wildcard>> ELSE order,
                  !.isLeafNode = TRUE,
                  !.c_index = 1,
                  !.pc = "for"]

\* lines 185-199: a candidate that repeats nothing is a result or goes on the stack
\* mutant: a result also goes on the stack
PushCandidateAlways(stack, cand, target) == Append(stack, cand)

PushCandidate(stack, cand, target) ==
    IF Len(cand) = target THEN stack ELSE Append(stack, cand)

RecordCandidate(found, cand, target) ==
    IF Len(cand) = target THEN Append(found, cand) ELSE found

\* mutant: the diagnostic line prints
DiagnosticFailsNever(r, cand) == FALSE

\* line 193 reads the name words, which the script never binds
DiagnosticFails(r, cand) == r.verbose_output /\ Len(cand) = r.target_length

\* lines 176-199: one pass of the for loop
CandidateStep(r) ==
    LET cand == Append(r.word, r.next_symbols[r.c_index])
        test == HasRepeatedSubword(r.mem_seenWords, r.alphabet, r.window_length, cand)
    IN  IF test.ret
        THEN [r EXCEPT !.candidate = cand,
                       !.mem_seenWords = test.mem,
                       !.c_index = r.c_index + 1]
        ELSE [r EXCEPT !.candidate = cand,
                       !.mem_seenWords = test.mem,
                       !.isLeafNode = FALSE,
                       !.upwords = RecordCandidate(r.upwords, cand, r.target_length),
                       !.upword_list = IF DiagnosticFails(r, cand)
                                       THEN r.upword_list
                                       ELSE RecordCandidate(r.upword_list, cand,
                                                            r.target_length),
                       !.processing_stack =
                           PushCandidate(r.processing_stack, cand, r.target_length),
                       !.c_index = IF DiagnosticFails(r, cand)
                                   THEN r.c_index ELSE r.c_index + 1,
                       !.pc = IF DiagnosticFails(r, cand) THEN "error" ELSE "for"]

\* lines 203-204: the for loop is over; a leaf prunes the cache
\* mutant: a leaf leaves the cache as it is
LeafStepNoExpire(r) == [r EXCEPT !.pc = "while"]

LeafStep(r) ==
    [r EXCEPT !.mem_seenWords = IF r.isLeafNode
                                THEN Expire(r.mem_seenWords, r.max_entries,
                                            r.processing_stack)
                                ELSE r.mem_seenWords,
              !.pc = "while"]

\* line 146 with an empty stack, line 206
ExitStep(r) == [r EXCEPT !.pc = "done"]

AtPop(r) == r.pc = "while" /\ Len(r.processing_stack) > 0
AtExit(r) == r.pc = "while" /\ Len(r.processing_stack) = 0
AtCandidate(r) == r.pc = "for" /\ r.c_index <= Len(r.next_symbols)
AtLeaf(r) == r.pc = "for" /\ r.c_index > Len(r.next_symbols)
Stopped(r) == r.pc \in {"done", "error"}

---------------------------------------------------------------------------
(* One run of the script: the steps applied to the script's variables.    *)

Cur ==
    [alphabet |-> alphabet, window_length |-> window_length,
     randomize_walk |-> randomize_walk, verbose_output |-> verbose_output,
     mem_seenWords |-> mem_seenWords, max_entries |-> max_entries,
     target_length |-> target_length,
     processing_stack |-> processing_stack,
     upwords |-> upwords, upword_list |-> upword_list, longest |-> longest,
     word |-> word, next_symbols |-> next_symbols, c_index |-> c_index,
     candidate |-> candidate, isLeafNode |-> isLeafNode, pc |-> pc]

Becomes(r) ==
    /\ alphabet' = r.alphabet
    /\ window_length' = r.window_length
    /\ randomize_walk' = r.randomize_walk
    /\ verbose_output' = r.verbose_output
    /\ mem_seenWords' = r.mem_seenWords
    /\ max_entries' = r.max_entries
    /\ target_length' = r.target_length
    /\ processing_stack' = r.processing_stack
    /\ upwords' = r.upwords
    /\ upword_list' = r.upword_list
    /\ longest' = r.longest
    /\ word' = r.word
    /\ next_symbols' = r.next_symbols
    /\ c_index' = r.c_index
    /\ candidate' = r.candidate
    /\ isLeafNode' = r.isLeafNode
    /\ pc' = r.pc

Is(r) ==
    /\ alphabet = r.alphabet
    /\ window_length = r.window_length
    /\ randomize_walk = r.randomize_walk
    /\ verbose_output = r.verbose_output
    /\ mem_seenWords = r.mem_seenWords
    /\ max_entries = r.max_entries
    /\ target_length = r.target_length
    /\ processing_stack = r.processing_stack
    /\ upwords = r.upwords
    /\ upword_list = r.upword_list
    /\ longest = r.longest
    /\ word = r.word
    /\ next_symbols = r.next_symbols
    /\ c_index = r.c_index
    /\ candidate = r.candidate
    /\ isLeafNode = r.isLeafNode
    /\ pc = r.pc

Alphabets == {SubSeq(Digits, 1, k) : k \in 1..MaxAlphabet}

Capacities == (1..MaxCapacity) \cup {DefaultMaxEntries}

\* the parameters of the runs the model covers
Parameters ==
    {p \in Alphabets \X (1..MaxWindow) : TargetLength(p[1], p[2]) <= MaxTarget}

NoCall == [op |-> "none", arg |-> <<>>, cached |-> FALSE, cached_reference |-> FALSE]

InitApi ==
    /\ call = NoCall
    /\ ret = {}
    /\ rep = FALSE
    /\ probe = <<>>
    /\ mem_reference = EmptyCache
    /\ ret_reference = {}

Init ==
    /\ \E p \in Parameters, entries \in Capacities, randomize, verbose \in BOOLEAN :
          /\ Is(InitRun(p[1], p[2], entries, randomize, verbose))
          /\ twin = InitRun(p[1], p[2], entries, FALSE, verbose)
    /\ InitApi

\* the steps of the run held in the script's variables
RunPop ==
    /\ AtPop(Cur)
    /\ \E order \in WalkOrders(Cur) : Becomes(PopStep(Cur, order))

RunCandidate ==
    /\ AtCandidate(Cur)
    /\ Becomes(CandidateStep(Cur))

RunLeaf ==
    /\ AtLeaf(Cur)
    /\ Becomes(LeafStep(Cur))

RunExit ==
    /\ AtExit(Cur)
    /\ Becomes(ExitStep(Cur))

Pop == RunPop /\ UNCHANGED <<twin, apiVars>>

TryCandidate == RunCandidate /\ UNCHANGED <<twin, apiVars>>

EndIteration == RunLeaf /\ UNCHANGED <<twin, apiVars>>

Exit == RunExit /\ UNCHANGED <<twin, apiVars>>

Next == Pop \/ TryCandidate \/ EndIteration \/ Exit

Spec == Init /\ [][Next]_vars

\* the script runs to its end: nothing suspends the loop
FairSpec == Spec /\ WF_vars(Next)

---------------------------------------------------------------------------
(* Coverage of a word, stated directly: every window position, every      *)
(* alphabet symbol in place of the wildcard.                              *)

WindowPositions(w, n) == 1..(Len(w) - n + 1)

WindowAt(w, n, i) == SubSeq(w, i, i + n - 1)

Expansions(win, alpha) == {Replace(win, alpha[i]) : i \in 1..Len(alpha)}

CoverageSet(w, alpha, n) ==
    UNION {Expansions(WindowAt(w, n, i), alpha) : i \in WindowPositions(w, n)}

\* no concrete window is produced twice by w
NoRepeatedWindow(w, alpha, n) ==
    Len(w) >= n => Cardinality(CoverageSet(w, alpha, n)) = Len(alpha) * (Len(w) - n + 1)

Held == Range(processing_stack) \cup Range(upwords)

\* C1: for window length >= 2, every word on the frontier or in the ResultSet
\* produces each of its concrete windows once: the size of its coverage is
\* |alphabet| * (|word| - n + 1).
C1_NoDuplicate ==
    window_length >= 2 =>
        \A w \in Held : NoRepeatedWindow(w, alphabet, window_length)

C1_Witness ==
    /\ window_length >= 2
    /\ Len(alphabet) >= 2
    /\ Len(upwords) > 0
    /\ \E i \in 1..Len(processing_stack) : Len(processing_stack[i]) > window_length

\* all the concrete windows there are
AllWindows(alpha, n) == [1..n -> Range(alpha)]

\* no concrete window of w comes from two window positions
PositionsDisjoint(w, alpha, n) ==
    \A i, j \in WindowPositions(w, n) :
        i # j => Expansions(WindowAt(w, n, i), alpha)
                 \cap Expansions(WindowAt(w, n, j), alpha) = {}

\* C4: for window length >= 2, every result covers every concrete window, and
\* each exactly once: no window comes from two positions, and the expansions
\* of one position are |alphabet| different windows.
C4_Universal ==
    window_length >= 2 =>
        \A i \in 1..Len(upwords) :
            /\ CoverageSet(upwords[i], alphabet, window_length)
                   = AllWindows(alphabet, window_length)
            /\ PositionsDisjoint(upwords[i], alphabet, window_length)
            /\ \A p \in WindowPositions(upwords[i], window_length) :
                   Cardinality(Expansions(WindowAt(upwords[i], window_length, p), alphabet))
                       = Len(alphabet)

C4_Witness ==
    /\ window_length >= 2
    /\ Len(alphabet) >= 2
    /\ Len(upwords) >= 2
    /\ pc = "done"

\* C5: every result has length |alphabet|^(n-1) + (n-1); a candidate of that
\* length that repeats no window is appended to the results by the step that
\* tries it, and no step puts a word of that length on the stack.
C5_ResultLengths ==
    \A i \in 1..Len(upwords) :
        Len(upwords[i]) = Len(alphabet) ^ (window_length - 1) + (window_length - 1)

C5_Terminal ==
    /\ (/\ AtCandidate(Cur)
        /\ Len(candidate') = Len(alphabet) ^ (window_length - 1) + (window_length - 1)
        /\ NoRepeatedWindow(candidate', alphabet, window_length))
       => /\ upwords' = Append(upwords, candidate')
          /\ processing_stack' = processing_stack
    /\ \A w \in Range(processing_stack') \ Range(processing_stack) :
           Len(w) # Len(alphabet) ^ (window_length - 1) + (window_length - 1)

C6_Terminates == <>(pc = "done" /\ processing_stack = <<>>)

\* the step about to be taken is the one that calls expire
ExpireCall == AtLeaf(Cur) /\ isLeafNode

\* the state is the one expire returned to
ExpireReturned == pc = "while" /\ isLeafNode

\* C9: expire leaves a cache below the capacity as it is; otherwise the keys
\* left are the old keys that are a stack word less its last symbol, with
\* their values; the stack, the results and the capacity are unchanged.
C9_ExpirePost ==
    ExpireCall =>
        /\ IF Cardinality(DOMAIN mem_seenWords) < max_entries
           THEN mem_seenWords' = mem_seenWords
           ELSE /\ DOMAIN mem_seenWords' =
                       (DOMAIN mem_seenWords)
                       \cap {ButLast(processing_stack[i]) : i \in 1..Len(processing_stack)}
                /\ \A key \in DOMAIN mem_seenWords' :
                       mem_seenWords'[key] = mem_seenWords[key]
        /\ processing_stack' = processing_stack
        /\ upwords' = upwords
        /\ max_entries' = max_entries

C9_EvictPostcondition == [][C9_ExpirePost]_vars

\* expire has removed the entry of the leaf and kept others
C9_Witness ==
    /\ ExpireReturned
    /\ max_entries <= MaxCapacity
    /\ Len(word) >= window_length
    /\ word \notin DOMAIN mem_seenWords
    /\ DOMAIN mem_seenWords # {}

\* C10: with capacity 1, at least two symbols and window length >= 2, the
\* cache expire returns holds no more entries than the stack holds words.
C10_CacheBound ==
    (/\ ExpireReturned
     /\ max_entries = 1
     /\ Len(alphabet) >= 2
     /\ window_length >= 2)
    => Cardinality(DOMAIN mem_seenWords) <= Len(processing_stack)

C10_Witness ==
    /\ ExpireReturned
    /\ max_entries = 1
    /\ Len(alphabet) >= 2
    /\ window_length >= 2
    /\ Cardinality(DOMAIN mem_seenWords) >= 2
    /\ word \notin DOMAIN mem_seenWords
    /\ Len(word) >= window_length

---------------------------------------------------------------------------
(* The cache called from outside the search: any sequence of calls of its *)
(* methods, on the prefixes of a probe word.  A second cache              *)
(* (mem_reference) is given the same calls, the expire calls excepted.    *)

\* the probe word is written with the wildcard and the first and last symbols
ProbeSymbols(alpha) == {alpha[1], alpha[Len(alpha)], Wildcard}

ProbeWords(alpha) == [1..MaxProbe -> ProbeSymbols(alpha)]

Prefixes(w) == {SubSeq(w, 1, i) : i \in 0..Len(w)}

\* the prefixes of w of the lengths in lens, as a stack, shortest first
RECURSIVE StackOf(_, _)
StackOf(lens, w) ==
    IF lens = {}
    THEN <<>>
    ELSE LET m == CHOOSE x \in lens : \A y \in lens : y <= x
         IN  Append(StackOf(lens \ {m}, w), SubSeq(w, 1, m))

StackArgs == {StackOf(lens, probe) : lens \in SUBSET (0..Len(probe))}

InitCache ==
    /\ \E p \in Parameters :
          /\ Is(InitRun(p[1], p[2], DefaultMaxEntries, FALSE, FALSE))
          /\ twin = InitRun(p[1], p[2], DefaultMaxEntries, FALSE, FALSE)
          /\ probe \in ProbeWords(p[1])
    /\ call = NoCall
    /\ ret = {}
    /\ rep = FALSE
    /\ mem_reference = EmptyCache
    /\ ret_reference = {}

cacheFrame ==
    <<alphabet, window_length, randomize_walk, verbose_output, target_length,
      processing_stack, upwords, upword_list, longest, word, next_symbols, c_index,
      candidate, isLeafNode, pc, twin, probe>>

Called(op, w) ==
    [op |-> op, arg |-> w,
     cached |-> w \in DOMAIN mem_seenWords,
     cached_reference |-> w \in DOMAIN mem_reference]

CallCoveredSubwords(w) ==
    LET r == CoveredSubwords(mem_seenWords, alphabet, window_length, w)
        q == CoveredSubwords(mem_reference, alphabet, window_length, w)
    IN  /\ mem_seenWords' = r.mem
        /\ ret' = r.ret
        /\ mem_reference' = q.mem
        /\ ret_reference' = q.ret
        /\ rep' = FALSE
        /\ call' = Called("coveredSubwords", w)
        /\ UNCHANGED <<max_entries, cacheFrame>>

CallHasRepeatedSubword(w) ==
    LET r == HasRepeatedSubword(mem_seenWords, alphabet, window_length, w)
        q == HasRepeatedSubword(mem_reference, alphabet, window_length, w)
    IN  /\ mem_seenWords' = r.mem
        /\ rep' = r.ret
        /\ mem_reference' = q.mem
        /\ ret' = {}
        /\ ret_reference' = {}
        /\ call' = Called("hasRepeatedSubword", w)
        /\ UNCHANGED <<max_entries, cacheFrame>>

CallSetMaxEntries(entries) ==
    /\ max_entries' = entries
    /\ ret' = {}
    /\ ret_reference' = {}
    /\ rep' = FALSE
    /\ call' = Called("setMaxEntries", <<>>)
    /\ UNCHANGED <<mem_seenWords, mem_reference, cacheFrame>>

CallExpire(current_stack) ==
    /\ mem_seenWords' = Expire(mem_seenWords, max_entries, current_stack)
    /\ ret' = {}
    /\ ret_reference' = {}
    /\ rep' = FALSE
    /\ call' = Called("expire", <<>>)
    /\ UNCHANGED <<max_entries, mem_reference, cacheFrame>>

NextCache ==
    \/ \E w \in Prefixes(probe) : CallCoveredSubwords(w)
    \/ \E w \in Prefixes(probe) : CallHasRepeatedSubword(w)
    \/ \E entries \in 1..MaxCapacity : CallSetMaxEntries(entries)
    \/ \E current_stack \in StackArgs : CallExpire(current_stack)

SpecCache == InitCache /\ [][NextCache]_vars

\* C2: coveredSubwords(w) returns the empty set when w is shorter than the
\* window, and otherwise what coveredSubwords(w[:-1]) returns united with the
\* expansions of the last window of w.
C2_CoverageRecurrence ==
    call.op = "coveredSubwords" =>
        ret = IF Len(call.arg) < window_length
              THEN {}
              ELSE CoveredSubwords(mem_seenWords, alphabet, window_length,
                                   ButLast(call.arg)).ret
                   \cup Expansions(LastN(call.arg, window_length), alphabet)

C2_Witness ==
    /\ call.op = "coveredSubwords"
    /\ Len(call.arg) > window_length
    /\ ~call.cached
    /\ Cardinality(ret) > Len(alphabet)
    /\ Len(alphabet) >= 2

\* C3: whatever expire calls came before, coveredSubwords returns what it
\* returns on a cache given the same calls without the expire calls.
C3_EvictionTransparent ==
    call.op = "coveredSubwords" => ret = ret_reference

C3_Witness ==
    /\ call.op = "coveredSubwords"
    /\ ~call.cached
    /\ call.cached_reference
    /\ Len(call.arg) > window_length
    /\ ret # {}

---------------------------------------------------------------------------
(* Two runs of the script with the same alphabet and window length, side  *)
(* by side: each step of the first run is taken with the step the second  *)
(* run (twin) is at.  The second run never randomizes.                    *)

InitPair ==
    /\ \E p \in Parameters, entries, twin_entries \in Capacities,
          randomize, verbose \in BOOLEAN :
          /\ Is(InitRun(p[1], p[2], entries, randomize, verbose))
          /\ twin = InitRun(p[1], p[2], twin_entries, FALSE, verbose)
    /\ InitApi

\* the step the run r is at
StepOf(r, order) ==
    IF AtPop(r) THEN PopStep(r, order)
    ELSE IF AtCandidate(r) THEN CandidateStep(r)
    ELSE IF AtLeaf(r) THEN LeafStep(r)
    ELSE IF AtExit(r) THEN ExitStep(r)
    ELSE r

OrdersOf(r) == IF AtPop(r) THEN WalkOrders(r) ELSE {r.alphabet}

TwinRuns == \E order \in OrdersOf(twin) : twin' = StepOf(twin, order)

PairPop == RunPop /\ TwinRuns /\ UNCHANGED apiVars

PairCandidate == RunCandidate /\ TwinRuns /\ UNCHANGED apiVars

PairLeaf == RunLeaf /\ TwinRuns /\ UNCHANGED apiVars

PairExit == RunExit /\ TwinRuns /\ UNCHANGED apiVars

\* the first run has stopped and the second has not
TwinAlone ==
    /\ Stopped(Cur)
    /\ ~Stopped(twin)
    /\ TwinRuns
    /\ UNCHANGED <<runVars, apiVars>>

NextPair == PairPop \/ PairCandidate \/ PairLeaf \/ PairExit \/ TwinAlone

SpecPair == InitPair /\ [][NextPair]_vars

C8_SameResultSet ==
    (/\ randomize_walk
     /\ Stopped(Cur)
     /\ Stopped(twin))
    => Range(upwords) = Range(twin.upwords)

\* C8 for the runs that reach the end of the while loop
C8_SameAtLoopEnd ==
    (/\ randomize_walk
     /\ pc = "done"
     /\ twin.pc = "done")
    => Range(upwords) = Range(twin.upwords)

---------------------------------------------------------------------------
(* Scenarios of the search *)

Binary == <<"0", "1">>

BinaryWindowTwo == Range(alphabet) = Range(Binary) /\ window_length = 2

Seed == FirstCandidate(Digits)

\* C11: with the alphabet 0, 1 and window length 2 no state holds a result:
\* 0w0 and 0w1, the candidates of target length 3, are both rejected.
C11_NoSolution ==
    BinaryWindowTwo =>
        /\ upwords = <<>>
        /\ upword_list = <<>>
        /\ target_length = 3
        /\ Len(candidate) = 3 => (isLeafNode /\ candidate \notin Range(processing_stack))

C11_Witness ==
    /\ BinaryWindowTwo
    /\ pc = "done"
    /\ candidate \in {<<"0", "w", "0">>, <<"0", "w", "1">>}
    /\ word = <<"0", "w">>

\* C12 as stated: with the alphabet 0, 1 and window length 2 the iteration
\* that pops the seed 0 finds no safe candidate, pushes nothing and calls
\* expire, and the search ends after it.
C12_SeedIsLeaf ==
    (BinaryWindowTwo /\ word = Seed /\ AtLeaf(Cur)) =>
        (isLeafNode /\ processing_stack = <<>>)

\* C12 as amended: the iteration that pops the seed 0 finds its one
\* candidate 0w safe and pushes it; the iteration that pops 0w finds no safe
\* candidate, pushes nothing and calls expire; the search ends after these
\* two iterations.
C12_SecondIsLeaf ==
    BinaryWindowTwo =>
        /\ word \in {<<>>, Seed, <<"0", "w">>}
        /\ (word = <<>>) => (pc = "while" /\ processing_stack = <<Seed>>)
        /\ (word = Seed /\ AtLeaf(Cur)) =>
               (~isLeafNode /\ processing_stack = <<<<"0", "w">>>>)
        /\ (word = Seed /\ pc = "while") =>
               (~isLeafNode /\ processing_stack = <<<<"0", "w">>>>)
        /\ (word = <<"0", "w">> /\ pc \in {"for", "while"}) => processing_stack = <<>>
        /\ (word = <<"0", "w">> /\ AtLeaf(Cur)) => isLeafNode
        /\ pc = "done" => (word = <<"0", "w">> /\ isLeafNode)
        /\ pc # "error"

C12_Witness ==
    /\ BinaryWindowTwo
    /\ word = <<"0", "w">>
    /\ ExpireReturned
    /\ processing_stack = <<>>

\* C13: with window length 1 the seed is never a result: the one candidate,
\* the seed followed by the wildcard, is rejected, the seed is a leaf, and
\* the search ends with no result.
C13_SeedNotRecorded ==
    window_length = 1 =>
        /\ target_length = Len(Seed)
        /\ upwords = <<>>
        /\ upword_list = <<>>
        /\ word \in {<<>>, Seed}
        /\ pc # "error"
        /\ (pc = "for" => next_symbols = <<Wildcard>>)
        /\ (AtLeaf(Cur) \/ pc = "done") =>
               /\ candidate = Append(Seed, Wildcard)
               /\ isLeafNode
               /\ processing_stack = <<>>
        /\ (pc = "while" /\ word = Seed) => processing_stack = <<>>

C13_Witness ==
    /\ window_length = 1
    /\ Len(alphabet) >= 2
    /\ pc = "done"
    /\ candidate = Append(Seed, Wildcard)

---------------------------------------------------------------------------
(* The capacity of the cache *)

\* C14: two runs without randomization, with the same alphabet and window
\* length and different capacities, are at every step at the same place
\* with the same popped word, candidate, decision, stack and results: they
\* differ in the cache only.
C14_CapacityIndependent ==
    (~randomize_walk /\ twin.max_entries # max_entries) =>
        /\ twin.pc = pc
        /\ twin.word = word
        /\ twin.next_symbols = next_symbols
        /\ twin.c_index = c_index
        /\ twin.candidate = candidate
        /\ twin.isLeafNode = isLeafNode
        /\ twin.processing_stack = processing_stack
        /\ twin.upwords = upwords
        /\ twin.upword_list = upword_list
        /\ twin.longest = longest

C14_Witness ==
    /\ ~randomize_walk
    /\ max_entries = 1
    /\ twin.max_entries = DefaultMaxEntries
    /\ pc = "done"
    /\ twin.pc = "done"
    /\ Len(upwords) >= 2
    /\ twin.upwords = upwords
    /\ DOMAIN mem_seenWords # DOMAIN twin.mem_seenWords

\* C15 as stated: the cache expire returns to the search holds at most
\* max_entries entries.
C15_AtMostCapacity ==
    ExpireReturned => Size(mem_seenWords) <= max_entries

\* C15 as amended: the cache expire returns to the search holds fewer than
\* max_entries entries, or no more entries than the stack holds words, each
\* of them a stack word less its last symbol.
C15_PeakAfterExpire ==
    ExpireReturned =>
        \/ Size(mem_seenWords) < max_entries
        \/ /\ Size(mem_seenWords) <= Len(processing_stack)
           /\ DOMAIN mem_seenWords \subseteq
                  {ButLast(processing_stack[i]) : i \in 1..Len(processing_stack)}

C15_Witness ==
    /\ ExpireReturned
    /\ Size(mem_seenWords) > max_entries
    /\ Size(mem_seenWords) = Len(processing_stack)

---------------------------------------------------------------------------
(* The order of the walk *)

\* the place of the symbol a in the order alpha
IndexIn(alpha, a) == CHOOSE i \in 1..Len(alpha) : alpha[i] = a

\* the stack words pushed by the iteration that pushed the word w
Siblings(stack, w) ==
    {stack[i] : i \in {j \in 1..Len(stack) : ButLast(stack[j]) = ButLast(w)}}

\* C16: without randomization, a popped word ends in an earlier symbol than
\* every word the same iteration pushed that is still on the stack.
C16_LeastBranchFirst ==
    (~randomize_walk /\ word # <<>>) =>
        \A s \in Siblings(processing_stack, word) :
            IndexIn(Digits, word[Len(word)]) < IndexIn(Digits, s[Len(s)])

\* what the search does: the popped word ends in the later symbol
C16_GreatestBranchFirst ==
    (~randomize_walk /\ word # <<>>) =>
        \A s \in Siblings(processing_stack, word) :
            IndexIn(Digits, word[Len(word)]) > IndexIn(Digits, s[Len(s)])

---------------------------------------------------------------------------
(* The diagnostic line *)

\* the first result is in upwords, not in the output file, and the run has
\* stopped in an error
DiagnosticStop ==
    /\ pc = "error"
    /\ verbose_output
    /\ Len(upwords) = 1
    /\ upwords[1] = candidate
    /\ Len(candidate) = target_length
    /\ upword_list = <<>>

\* C17 as stated: with verbose_output a run that has a result has stopped in
\* an error with words left on the stack, the result in upwords and not in
\* the output file; without verbose_output no run stops in an error.
C17_FailsWithFrontier ==
    /\ (verbose_output /\ upwords # <<>>) =>
           (DiagnosticStop /\ processing_stack # <<>>)
    /\ pc = "error" => verbose_output
    /\ ~verbose_output => upword_list = upwords

\* C17 as amended: the same, the stack being empty or not.
C17_FailsAtFirstResult ==
    /\ (verbose_output /\ upwords # <<>>) => DiagnosticStop
    /\ pc = "error" => DiagnosticStop
    /\ verbose_output => Len(upwords) <= 1
    /\ ~verbose_output => (pc # "error" /\ upword_list = upwords)

\* a run stopped by the diagnostic line with nothing left on the stack
C17_Witness ==
    /\ DiagnosticStop
    /\ processing_stack = <<>>

\* with verbose_output off the same step succeeds
C17_WitnessQuiet ==
    /\ ~verbose_output
    /\ pc = "done"
    /\ Len(upword_list) >= 1

---------------------------------------------------------------------------
(* The entries of the cache, under the calls from outside *)

\* every key is at least as long as the window and maps to its coverage set
C18_Entries ==
    \A key \in DOMAIN mem_seenWords :
        /\ Len(key) >= window_length
        /\ mem_seenWords[key] = CoverageSet(key, alphabet, window_length)

\* a call that looks up a word that is a key leaves the cache as it is:
\* coveredSubwords(w) looks up w, hasRepeatedSubword(w) looks up w[:-1]
C18_HitUnchanged ==
    \A w \in Prefixes(probe) :
        /\ (w \in DOMAIN mem_seenWords /\ call' = Called("coveredSubwords", w))
               => mem_seenWords' = mem_seenWords
        /\ (ButLast(w) \in DOMAIN mem_seenWords /\ call' = Called("hasRepeatedSubword", w))
               => mem_seenWords' = mem_seenWords

---------------------------------------------------------------------------
(* The cache entries the stack needs *)

\* the stack words whose word less its last symbol is long enough to be cached
NeedsParent(stack, n) == {s \in Range(stack) : Len(s) - 1 >= n}

\* when an iteration starts, the words the stack needs are keys
C19_ParentsCached ==
    pc = "while" =>
        \A s \in NeedsParent(processing_stack, window_length) :
            ButLast(s) \in DOMAIN mem_seenWords

\* inside an iteration the popped word or its shorter word is a key, or the
\* shorter word is too short to be one: coveredSubwords(word) goes no deeper
\* than word[:-1]
C19_OneLevel ==
    AtCandidate(Cur) =>
        \/ word \in DOMAIN mem_seenWords
        \/ Len(word) - 1 < window_length
        \/ ButLast(word) \in DOMAIN mem_seenWords

\* a pass of the for loop adds no key but the popped word
C19_InsertsWord ==
    AtCandidate(Cur) =>
        (DOMAIN mem_seenWords') \ (DOMAIN mem_seenWords) \subseteq {word}

\* C19: at the start of every iteration each stack word s with
\* len(s) - 1 >= window_length has s[:-1] as a key of the cache; an iteration
\* adds at most one key, the popped word, and coveredSubwords never goes
\* deeper than one word below the popped word.
C19_FrontierParentsCached ==
    /\ []C19_ParentsCached
    /\ []C19_OneLevel
    /\ [][C19_InsertsWord]_vars

\* expire has just removed keys and the stack still needs some
C19_Witness ==
    /\ ExpireReturned
    /\ max_entries <= MaxCapacity
    /\ Len(word) >= window_length
    /\ word \notin DOMAIN mem_seenWords
    /\ Cardinality({ButLast(s) : s \in NeedsParent(processing_stack, window_length)}) >= 2
    /\ C19_ParentsCached

---------------------------------------------------------------------------
(* The shape of the words *)

\* the words on the stack, popped, or recorded
Visited ==
    Range(processing_stack) \cup Range(upwords)
        \cup (IF word = <<>> THEN {} ELSE {word})

\* w starts with the first symbol and has the wildcard at the indices i
\* (from 0) with i % n = n - 1, a symbol of the alphabet at the others
Shaped(w, alpha, n) ==
    /\ Len(w) >= 1
    /\ w[1] = Digits[1]
    /\ \A i \in 1..Len(w) :
           IF (i - 1) % n = n - 1
           THEN w[i] = Wildcard
           ELSE w[i] \in Range(alpha)

\* each window of w has one wildcard and as many expansions as symbols
OneWildcardPerWindow(w, alpha, n) ==
    \A p \in WindowPositions(w, n) :
        /\ Cardinality({j \in 1..n : WindowAt(w, n, p)[j] = Wildcard}) = 1
        /\ Cardinality(Expansions(WindowAt(w, n, p), alpha)) = Len(alpha)

\* C20 as stated: every word on the stack, popped or recorded has that
\* shape, and for window length >= 2 one wildcard in each window.
C20_ShapedAlways ==
    \A w \in Visited :
        /\ Shaped(w, alphabet, window_length)
        /\ window_length >= 2 => OneWildcardPerWindow(w, alphabet, window_length)

\* C20 as amended: for window length >= 2, every word on the stack, popped
\* or recorded has that shape and one wildcard in each window.
C20_ShapedFromTwo ==
    window_length >= 2 =>
        \A w \in Visited :
            /\ Shaped(w, alphabet, window_length)
            /\ OneWildcardPerWindow(w, alphabet, window_length)

C20_Witness ==
    /\ window_length >= 3
    /\ Len(alphabet) >= 2
    /\ upwords # <<>>
    /\ processing_stack # <<>>
    /\ \E w \in Visited : Cardinality({i \in 1..Len(w) : w[i] = Wildcard}) >= 2

====
